---------------------------- MODULE Spec2Model ----------------------------
(***************************************************************************)
(* A model of web_scraper.py: the listing locator and the per-item field   *)
(* extractor of scrape_movies, the two detail enrichers, the selection     *)
(* loop of interactive_menu and the top-level program.                     *)
(*                                                                         *)
(* Text is a sequence of characters, each character a one-element string.  *)
(* Characters outside ASCII are written by name: "SUP2" is U+00B2          *)
(* (SUPERSCRIPT TWO), "AR3" is U+0663 (ARABIC-INDIC DIGIT THREE).          *)
(* An optional value (Python's None or a value) is a sequence of length 0  *)
(* or 1.                                                                   *)
(***************************************************************************)
EXTENDS Integers, Sequences, FiniteSets, TLC

VARIABLES
    url,             \* args.url, the base URL of the listing page
    soup,            \* the parsed listing page: a sequence of top-level nodes
    pc,              \* the position of the program
    selIdx,          \* scrape_movies: index of the next selector to try
    evaluated,       \* scrape_movies: the selectors soup.select was called with
    movie_listings,  \* scrape_movies: the located item nodes (paths into soup)
    usedFallback,    \* scrape_movies: whether the heading fallback ran
    hIdx,            \* scrape_movies: index of the next heading of the fallback
    candidates,      \* scrape_movies: parents collected by the fallback
    movies_data,     \* scrape_movies: the records built so far
    scraped,         \* __main__: the list scrape_movies returned
    args,            \* __main__: [json, no_interactive], and whether stdin is a TTY
    jsonWritten,     \* __main__: "no", "ok" or "failed"
    exitCode,        \* the process exit code, -1 while running
    selected,        \* interactive_menu: idx of the record being shown, 0 if none
    choice,          \* interactive_menu: the last line read by input()
    calls,           \* the enricher calls made, in order
    details,         \* interactive_menu: the last EnrichmentResult, None before
    out,             \* what interactive_menu printed last
    escaped,         \* the exception that left interactive_menu, None if none
    signal,          \* where an interrupt arrived: "none", "listing", "await", "show"
    response,        \* the outcome of the last detail-page fetch, None if none
    prompts          \* the number of lines read so far

vars == <<url, soup, pc, selIdx, evaluated, movie_listings, usedFallback, hIdx,
          candidates, movies_data, scraped, args, jsonWritten, exitCode,
          selected, choice, calls, details, out, escaped, signal, response,
          prompts>>

locVars == <<selIdx, evaluated, movie_listings, usedFallback, hIdx, candidates>>
menuVars ==
    <<selected, choice, calls, details, out, escaped, signal, response, prompts>>
mainVars == <<scraped, args, jsonWritten, exitCode>>

None == << >>
Some(v) == <<v>>

(***************************************************************************)
(* Text                                                                    *)
(***************************************************************************)
NL == "\n"
Whitespace == {" ", NL}

RECURSIVE LStrip(_)
LStrip(s) == IF s # << >> /\ Head(s) \in Whitespace THEN LStrip(Tail(s)) ELSE s

RECURSIVE RStrip(_)
RStrip(s) ==
    IF s # << >> /\ s[Len(s)] \in Whitespace
    THEN RStrip(SubSeq(s, 1, Len(s) - 1))
    ELSE s

\* str.strip()
Strip(s) == RStrip(LStrip(s))

\* sep.join(parts)
RECURSIVE Join(_, _)
Join(parts, sep) ==
    IF parts = << >> THEN << >>
    ELSE IF Len(parts) = 1 THEN parts[1]
    ELSE parts[1] \o sep \o Join(Tail(parts), sep)

\* text.split("\n")[0]
RECURSIVE FirstLine(_)
FirstLine(s) ==
    IF s = << >> \/ Head(s) = NL THEN << >>
    ELSE <<Head(s)>> \o FirstLine(Tail(s))

(***************************************************************************)
(* The markup tree.  A node is [tag, cls, href, text, kids]: an element    *)
(* with its class attribute, its href attribute (None when it has none),   *)
(* and either a text (a leaf) or child elements.  A node is named by its   *)
(* path: <<i>> is the i-th top-level node, <<i, j>> its j-th child, << >>  *)
(* the BeautifulSoup object itself.                                        *)
(***************************************************************************)
Leaf(tag, cls, href, text) ==
    [tag |-> tag, cls |-> cls, href |-> href, text |-> text, kids |-> << >>]
Box(tag, cls, kids) ==
    [tag |-> tag, cls |-> cls, href |-> None, text |-> << >>, kids |-> kids]

\* The BeautifulSoup object of a tree: a Tag named [document].
RootNode(tree) == Box("[document]", "", tree)

NodeAt(tree, path) ==
    IF path = << >> THEN RootNode(tree)
    ELSE IF Len(path) = 1 THEN tree[path[1]]
    ELSE tree[path[1]].kids[path[2]]

\* every element of the tree in document order
RECURSIVE PathsFrom(_, _)
PathsFrom(tree, i) ==
    IF i > Len(tree) THEN << >>
    ELSE <<<<i>>>> \o [j \in 1..Len(tree[i].kids) |-> <<i, j>>]
         \o PathsFrom(tree, i + 1)
AllPaths(tree) == PathsFrom(tree, 1)

\* the elements below path, in document order
Descendants(tree, path) ==
    IF path = << >> THEN AllPaths(tree)
    ELSE IF Len(path) = 1
    THEN [j \in 1..Len(tree[path[1]].kids) |-> <<path[1], j>>]
    ELSE << >>

\* Tag.find_parent()
ParentOf(path) == SubSeq(path, 1, Len(path) - 1)

FilterSeq(s, Test(_)) ==
    LET F[i \in 0..Len(s)] ==
            IF i = 0 THEN << >>
            ELSE IF Test(s[i]) THEN Append(F[i - 1], s[i]) ELSE F[i - 1]
    IN  F[Len(s)]

\* the class names that contain the substring "movie" / "rating"
MovieClasses == {"movie-item", "movie", "movies-grid", "movie-title", "movie-rating"}
RatingClasses == {"movie-rating", "rating", "user-ratings"}

\* whether a node matches a CSS selector of the program
Matches(n, sel) ==
    CASE sel = "div.movie-item" -> n.tag = "div" /\ n.cls = "movie-item"
      [] sel = "article.movie" -> n.tag = "article" /\ n.cls = "movie"
      [] sel = "li.movie" -> n.tag = "li" /\ n.cls = "movie"
      [] sel = "div.movie" -> n.tag = "div" /\ n.cls = "movie"
      [] sel = "div[class*='movie']" -> n.tag = "div" /\ n.cls \in MovieClasses
      [] sel = "article" -> n.tag = "article"
      [] sel = "li" -> n.tag = "li"
      [] sel = ".movie-title" -> n.cls = "movie-title"
      [] sel = "h2" -> n.tag = "h2"
      [] sel = "h3" -> n.tag = "h3"
      [] sel = "a.title" -> n.tag = "a" /\ n.cls = "title"
      [] sel = "a" -> n.tag = "a"
      [] sel = ".title" -> n.cls = "title"
      [] sel = ".movie-rating" -> n.cls = "movie-rating"
      [] sel = ".rating" -> n.cls = "rating"
      [] sel = ".score" -> n.cls = "score"
      [] sel = "span[class*='rating']" -> n.tag = "span" /\ n.cls \in RatingClasses
      [] sel = "div[class*='rating']" -> n.tag = "div" /\ n.cls \in RatingClasses
      [] sel = "a[href]" -> n.tag = "a" /\ n.href # None
      [] sel = "p" -> n.tag = "p"
      [] OTHER -> FALSE

\* Tag.select(sel): the matching descendants, in document order
Select(tree, path, sel) ==
    LET Hit(p) == Matches(NodeAt(tree, p), sel)
    IN  FilterSeq(Descendants(tree, path), Hit)

\* Tag.select_one(sel), Tag.find(name): the first match, None when there is none
SelectOne(tree, path, sel) ==
    LET found == Select(tree, path, sel)
    IN  IF found = << >> THEN None ELSE Some(found[1])

\* the stripped, non-empty strings below a node, in document order
Strings(tree, path) ==
    LET n == NodeAt(tree, path)
        own == IF n.kids = << >> /\ path # << >> THEN <<Strip(n.text)>> ELSE << >>
        below == [i \in 1..Len(Descendants(tree, path)) |->
                    LET d == NodeAt(tree, Descendants(tree, path)[i])
                    IN  IF d.kids = << >> THEN Strip(d.text) ELSE << >>]
        NonEmpty(s) == s # << >>
    IN  FilterSeq(own \o below, NonEmpty)

\* Tag.get_text(separator=sep, strip=True)
GetText(tree, path, sep) == Join(Strings(tree, path), sep)

(***************************************************************************)
(* Regular expressions of the program, matched as re.search matches them:  *)
(* the leftmost position where the pattern matches, and there the match    *)
(* the backtracking matcher finds first.  A match is None or Some of the   *)
(* matched substring (m.group(0)).                                         *)
(***************************************************************************)
AsciiDigits == {"0", "1", "2", "3", "4", "5", "6", "7", "8", "9"}
\* \d in a str pattern: any Unicode decimal digit
DecimalDigits == AsciiDigits \cup {"AR3"}

HasPrefixAt(s, i, lit) ==
    /\ i >= 1
    /\ i + Len(lit) - 1 <= Len(s)
    /\ SubSeq(s, i, i + Len(lit) - 1) = lit

\* the index after the longest run of characters of set D that starts at i
RECURSIVE RunEnd(_, _, _)
RunEnd(s, i, D) ==
    IF i <= Len(s) /\ s[i] \in D THEN RunEnd(s, i + 1, D) ELSE i

\* the first element of 1..Len(s) at which At(i) is not None
FirstMatch(s, At(_)) ==
    LET hits == {i \in 1..Len(s) : At(i) # None}
    IN  IF hits = {} THEN None
        ELSE At(CHOOSE i \in hits : \A k \in hits : i <= k)

Slash10 == <<"/", "1", "0">>
OutOf10 == <<" ", "o", "u", "t", " ", "o", "f", " ", "1", "0">>

\* ([0-9]+(\.[0-9]+)?)/10|([0-9]+(\.[0-9]+)?)(?: out of 10)  at position i
RatingAt(s, i) ==
    LET d == RunEnd(s, i, AsciiDigits)
        f == IF d > i /\ d <= Len(s) /\ s[d] = "." /\ RunEnd(s, d + 1, AsciiDigits) > d + 1
             THEN RunEnd(s, d + 1, AsciiDigits)
             ELSE d
        End(lit) ==
            IF HasPrefixAt(s, f, lit) THEN f + Len(lit)
            ELSE IF HasPrefixAt(s, d, lit) THEN d + Len(lit)
            ELSE 0
    IN  IF d = i THEN None
        ELSE IF End(Slash10) > 0 THEN Some(SubSeq(s, i, End(Slash10) - 1))
        ELSE IF End(OutOf10) > 0 THEN Some(SubSeq(s, i, End(OutOf10) - 1))
        ELSE None

RatingSearch(s) ==
    LET At(i) == RatingAt(s, i)
    IN  FirstMatch(s, At)

\* (19\d{2}|20\d{2})  at position i
YearAt(s, i) ==
    IF /\ i + 3 <= Len(s)
       /\ SubSeq(s, i, i + 1) \in {<<"1", "9">>, <<"2", "0">>}
       /\ s[i + 2] \in DecimalDigits
       /\ s[i + 3] \in DecimalDigits
    THEN Some(SubSeq(s, i, i + 3))
    ELSE None

YearSearch(s) ==
    LET At(i) == YearAt(s, i)
    IN  FirstMatch(s, At)

\* re.I: the lower-case form of the letters of "min"
Lower(c) == CASE c = "M" -> "m" [] c = "I" -> "i" [] c = "N" -> "n" [] OTHER -> c
LowerAll(s) == [k \in 1..Len(s) |-> Lower(s[k])]
Min == <<"m", "i", "n">>
MaxDurationDigits == 3

\* (\d{1,3})\s?min|(\d{1,3})\s?minutes  with re.I, at position i.  The second
\* alternative is tried only where the first failed, and "minutes" starts
\* with "min", so it never matches.
DurationAt(s, i) ==
    LET r == RunEnd(s, i, DecimalDigits)
        l == LowerAll(s)
    IN  IF r = i \/ r - i > MaxDurationDigits THEN None
        ELSE IF r <= Len(s) /\ s[r] \in Whitespace /\ HasPrefixAt(l, r + 1, Min)
        THEN Some(SubSeq(s, i, r + Len(Min)))
        ELSE IF HasPrefixAt(l, r, Min)
        THEN Some(SubSeq(s, i, r + Len(Min) - 1))
        ELSE None

DurationSearch(s) ==
    LET At(i) == DurationAt(s, i)
    IN  FirstMatch(s, At)

(***************************************************************************)
(* urllib.parse.urljoin, for a base "scheme://netloc/path" and a reference *)
(* that is absolute ("scheme:..."), network-path ("//..."), absolute-path  *)
(* ("/...") or relative without dot segments, query or fragment.           *)
(***************************************************************************)
\* the index of the first c in s at or after i, 0 when there is none
RECURSIVE IndexFrom(_, _, _)
IndexFrom(s, c, i) ==
    IF i > Len(s) THEN 0
    ELSE IF s[i] = c THEN i
    ELSE IndexFrom(s, c, i + 1)

\* the index of the last c in s, 0 when there is none
RECURSIVE LastIndex(_, _)
LastIndex(s, c) ==
    IF s = << >> THEN 0
    ELSE IF s[Len(s)] = c THEN Len(s)
    ELSE LastIndex(SubSeq(s, 1, Len(s) - 1), c)

\* a reference has a scheme when a ":" comes before any "/"
HasScheme(ref) ==
    LET c == IndexFrom(ref, ":", 1)
        sl == IndexFrom(ref, "/", 1)
    IN  c > 1 /\ (sl = 0 \/ c < sl)

UrlJoin(base, ref) ==
    LET colon == IndexFrom(base, ":", 1)
        scheme == SubSeq(base, 1, colon)             \* "http:"
        pathAt == IndexFrom(base, "/", colon + 3)    \* after "://"
        origin == IF pathAt = 0 THEN base ELSE SubSeq(base, 1, pathAt - 1)
        path == IF pathAt = 0 THEN << >> ELSE SubSeq(base, pathAt, Len(base))
        dir == SubSeq(path, 1, LastIndex(path, "/"))
    IN  IF ref = << >> THEN base
        ELSE IF HasScheme(ref) THEN ref
        ELSE IF HasPrefixAt(ref, 1, <<"/", "/">>) THEN scheme \o ref
        ELSE IF Head(ref) = "/" THEN origin \o ref
        ELSE origin \o (IF dir = << >> THEN <<"/">> ELSE dir) \o ref

(***************************************************************************)
(* Markup as text: str(tag) and BeautifulSoup(markup, "html.parser").      *)
(* Markup is a sequence of tokens: a start tag with its attributes, a run  *)
(* of text, an end tag.                                                    *)
(***************************************************************************)
Token(k, tag, cls, href, text) ==
    [k |-> k, tag |-> tag, cls |-> cls, href |-> href, text |-> text]

SerializeLeaf(n) ==
    <<Token("open", n.tag, n.cls, n.href, << >>)>>
    \o (IF n.text = << >> THEN << >> ELSE <<Token("text", "", "", None, n.text)>>)
    \o <<Token("close", n.tag, "", None, << >>)>>

RECURSIVE SerializeAll(_)
SerializeNode(n) ==
    IF n.kids = << >> THEN SerializeLeaf(n)
    ELSE <<Token("open", n.tag, n.cls, n.href, << >>)>>
         \o SerializeAll(n.kids)
         \o <<Token("close", n.tag, "", None, << >>)>>
SerializeAll(nodes) ==
    IF nodes = << >> THEN << >>
    ELSE SerializeNode(Head(nodes)) \o SerializeAll(Tail(nodes))

\* str(movie): the BeautifulSoup object serializes as its contents
Serialize(tree, path) ==
    IF path = << >> THEN SerializeAll(tree) ELSE SerializeNode(NodeAt(tree, path))

\* the elements that start at token i, up to the end tag that closes their
\* parent: [nodes, next]
RECURSIVE ParseElems(_, _)
ParseElems(toks, i) ==
    IF i > Len(toks) \/ toks[i].k # "open" THEN [nodes |-> << >>, next |-> i]
    ELSE LET t == toks[i]
             hasText == i + 1 <= Len(toks) /\ toks[i + 1].k = "text"
             inner == IF hasText THEN [nodes |-> << >>, next |-> i + 2]
                      ELSE ParseElems(toks, i + 1)
             node == [tag |-> t.tag, cls |-> t.cls, href |-> t.href,
                      text |-> IF hasText THEN toks[i + 1].text ELSE << >>,
                      kids |-> inner.nodes]
             rest == ParseElems(toks, inner.next + 1)
         IN  [nodes |-> <<node>> \o rest.nodes, next |-> rest.next]

ParseMarkup(toks) == ParseElems(toks, 1).nodes

(***************************************************************************)
(* scrape_movies: the field extractor, lines 66-116                        *)
(***************************************************************************)
NA == <<"N", "/", "A">>
title_selectors == <<".movie-title", "h2", "h3", "a.title", "a", ".title">>
rating_selectors ==
    <<".movie-rating", ".rating", ".score", "span[class*='rating']",
      "div[class*='rating']">>

\* lines 69-73 and 81-85: the first selector of the cascade whose first match
\* has a non-empty stripped text gives that text; None when there is none
RECURSIVE Cascade(_, _, _, _)
Cascade(tree, path, sels, k) ==
    IF k > Len(sels) THEN None
    ELSE LET el == SelectOne(tree, path, sels[k])
         IN  IF el # None /\ GetText(tree, el[1], << >>) # << >>
             THEN Some(GetText(tree, el[1], << >>))
             ELSE Cascade(tree, path, sels, k + 1)

\* lines 67-77
TitleOf(tree, path) ==
    LET title == Cascade(tree, path, title_selectors, 1)
        text == GetText(tree, path, <<" ">>)
    IN  IF title # None THEN title
        ELSE IF text # << >> THEN Some(Strip(FirstLine(text)))
        ELSE Some(NA)

\* RatingOf without the default of lines 92-93
RatingOfNoDefault(tree, path) ==
    LET rating == Cascade(tree, path, rating_selectors, 1)
    IN  IF rating # None THEN rating
        ELSE RatingSearch(GetText(tree, path, <<" ">>))

\* lines 79-93
RatingOf(tree, path) ==
    LET rating == Cascade(tree, path, rating_selectors, 1)
        m == RatingSearch(GetText(tree, path, <<" ">>))
    IN  IF rating # None THEN rating
        ELSE IF m # None THEN m
        ELSE Some(NA)

\* lines 96-99
LinkOf(tree, path, base) ==
    LET a == SelectOne(tree, path, "a[href]")
    IN  IF a # None /\ NodeAt(tree, a[1]).href \notin {None, Some(<< >>)}
        THEN Some(UrlJoin(base, NodeAt(tree, a[1]).href[1]))
        ELSE None

SnippetMax == 300
Ellipsis == <<".", ".", ".">>

\* lines 102-108
SnippetOf(tree, path) ==
    LET p == SelectOne(tree, path, "p")
        text == GetText(tree, path, <<" ">>)
    IN  IF p # None /\ GetText(tree, p[1], << >>) # << >>
        THEN GetText(tree, p[1], << >>)
        ELSE IF text # << >>
        THEN SubSeq(text, 1, IF Len(text) > SnippetMax THEN SnippetMax ELSE Len(text))
             \o (IF Len(text) > SnippetMax THEN Ellipsis ELSE << >>)
        ELSE << >>

\* "x or y" on an optional string: y when x is None or empty
OrElse(x, y) == IF x = None \/ x = Some(<< >>) THEN y ELSE x[1]

\* lines 110-116
ExtractRecord(tree, path, base) ==
    [Title |-> Some(OrElse(TitleOf(tree, path), NA)),
     Rating |-> RatingOf(tree, path),
     Link |-> LinkOf(tree, path, base),
     Snippet |-> SnippetOf(tree, path),
     RawHTML |-> Serialize(tree, path)]

\* lines 66-116, one iteration of "for movie in movie_listings"
ExtractItem ==
    /\ pc = "extract"
    /\ Len(movies_data) < Len(movie_listings)
    /\ movies_data' =
         Append(movies_data,
                ExtractRecord(soup, movie_listings[Len(movies_data) + 1], url))
    /\ UNCHANGED <<url, soup, pc>>
    /\ UNCHANGED locVars
    /\ UNCHANGED mainVars
    /\ UNCHANGED menuVars

\* line 118
ReturnMovies ==
    /\ pc = "extract"
    /\ Len(movies_data) = Len(movie_listings)
    /\ scraped' = movies_data
    /\ pc' = "scraped"
    /\ UNCHANGED <<url, soup, movies_data, args, jsonWritten, exitCode>>
    /\ UNCHANGED locVars
    /\ UNCHANGED menuVars

NextExtract == ExtractItem \/ ReturnMovies

(***************************************************************************)
(* scrape_movies: the listing locator                                      *)
(***************************************************************************)
selectors ==
    <<"div.movie-item", "article.movie", "li.movie", "div.movie",
      "div[class*='movie']", "article", "li">>

HeadingTags == {"h1", "h2", "h3", "h4", "h5", "h6"}

\* soup.find_all(re.compile(r"^h[1-6]$"))
Headings(tree) ==
    LET IsHeading(p) == NodeAt(tree, p).tag \in HeadingTags
    IN  FilterSeq(AllPaths(tree), IsHeading)

\* Tag.__eq__: same name, same attributes, same contents
TagEq(tree, p, q) == NodeAt(tree, p) = NodeAt(tree, q)

\* "parent not in candidates": list membership tests identity, then ==
InCandidates(tree, parent, cands) ==
    \E k \in 1..Len(cands) : cands[k] = parent \/ TagEq(tree, cands[k], parent)

\* TrySelector without the break of line 54: a later selector that matches
\* replaces the listings
TrySelectorNoBreak ==
    /\ pc = "select"
    /\ selIdx <= Len(selectors)
    /\ LET found == Select(soup, << >>, selectors[selIdx])
       IN  /\ evaluated' = Append(evaluated, selectors[selIdx])
           /\ movie_listings' = IF found # << >> THEN found ELSE movie_listings
           /\ selIdx' = selIdx + 1
           /\ pc' = IF selIdx = Len(selectors) THEN "located" ELSE "select"
    /\ UNCHANGED <<url, soup, usedFallback, hIdx, candidates, movies_data>>
    /\ UNCHANGED mainVars
    /\ UNCHANGED menuVars

\* lines 50-54, one iteration of "for sel in selectors"
TrySelector ==
    /\ pc = "select"
    /\ selIdx <= Len(selectors)
    /\ LET found == Select(soup, << >>, selectors[selIdx])
       IN  /\ evaluated' = Append(evaluated, selectors[selIdx])
           /\ IF found # << >>
              THEN /\ movie_listings' = found
                   /\ pc' = "located"
                   /\ selIdx' = selIdx
              ELSE /\ movie_listings' = movie_listings
                   /\ selIdx' = selIdx + 1
                   /\ pc' = IF selIdx = Len(selectors) THEN "located" ELSE "select"
    /\ UNCHANGED <<url, soup, usedFallback, hIdx, candidates, movies_data>>
    /\ UNCHANGED mainVars
    /\ UNCHANGED menuVars

\* line 56: "if not movie_listings"
CheckListings ==
    /\ pc = "located"
    /\ IF movie_listings = << >>
       THEN /\ usedFallback' = TRUE
            /\ pc' = "fallback"
       ELSE /\ usedFallback' = usedFallback
            /\ pc' = "extract"
    /\ UNCHANGED <<url, soup, selIdx, evaluated, movie_listings, hIdx, candidates,
                   movies_data>>
    /\ UNCHANGED mainVars
    /\ UNCHANGED menuVars

\* lines 59-62, one iteration of "for h in headings"
FallbackStep ==
    /\ pc = "fallback"
    /\ hIdx <= Len(Headings(soup))
    /\ LET parent == ParentOf(Headings(soup)[hIdx])
       IN  candidates' = IF ~InCandidates(soup, parent, candidates)
                         THEN Append(candidates, parent)
                         ELSE candidates
    /\ hIdx' = hIdx + 1
    /\ UNCHANGED <<url, soup, pc, selIdx, evaluated, movie_listings, usedFallback,
                   movies_data>>
    /\ UNCHANGED mainVars
    /\ UNCHANGED menuVars

\* line 63
FallbackDone ==
    /\ pc = "fallback"
    /\ hIdx > Len(Headings(soup))
    /\ movie_listings' = candidates
    /\ pc' = "extract"
    /\ UNCHANGED <<url, soup, selIdx, evaluated, usedFallback, hIdx, candidates,
                   movies_data>>
    /\ UNCHANGED mainVars
    /\ UNCHANGED menuVars

NextLocate == TrySelector \/ CheckListings \/ FallbackStep \/ FallbackDone

(***************************************************************************)
(* Inputs: the pages, item nodes, input lines and detail pages the program *)
(* is run on.                                                              *)
(***************************************************************************)
MinSummaryLen == 20    \* line 139

MaxTop == 2        \* top-level nodes of a listing page given to the locator
MaxKids == 2       \* child elements of an item given to the field extractor
MaxPrompts == 2    \* lines read by one run of interactive_menu

\* the sequences over S of length at most n
SeqsUpTo(S, n) == UNION {[1..k -> S] : k \in 0..n}

\* a text of n characters c
Rep(c, n) == [k \in 1..n |-> c]

H2(text) == Leaf("h2", "", None, text)
P(text) == Leaf("p", "", None, text)
A(href, text) == Leaf("a", "", href, text)

BaseUrls ==
    {<<"h", "t", "t", "p", ":", "/", "/", "h", "/">>,
     <<"h", "t", "t", "p", ":", "/", "/", "h", "/", "d", "/", "f">>}

\* pages for the listing locator
LocKids ==
    {<< >>, <<H2(<<"a">>)>>, <<H2(<<"a">>), H2(<<"b">>)>>,
     <<Leaf("li", "", None, <<"a">>)>>,
     <<H2(<<"a">>), Leaf("li", "", None, <<"a">>)>>}
LocNodes ==
    {Box(shell[1], shell[2], kids) :
        shell \in {<<"div", "movie-item">>, <<"div", "movies-grid">>,
                   <<"article", "">>, <<"section", "">>},
        kids \in LocKids}
    \cup {Leaf("h1", "", None, <<"a">>)}
LocSoups == SeqsUpTo(LocNodes, MaxTop)

\* item nodes for the field extractor
TitleKids ==
    {Leaf(k[1], k[2], None, t) :
        k \in {<<"span", "movie-title">>, <<"h2", "">>, <<"div", "title">>},
        t \in {<<" ">>, <<" ", "a">>}}
RatingKids ==
    {Leaf("span", cls, None, t) :
        cls \in {"rating", "user-ratings"},
        t \in {<< >>, <<"9">>}}
PlainKids ==
    {Leaf("span", "", None, t) :
        t \in {<< >>,
               <<NL, "7", "/", "1", "0">>,
               <<"a", "7", ".", "5", "/", "1", "0">>,
               <<"7", ".", "/", "1", "0">>,
               <<"8">> \o OutOf10}}
    \cup {P(<< >>), P(<<" ", "b", NL, "c">>)}
AnchorKids ==
    {A(href, <<"t">>) :
        href \in {None, Some(<< >>), Some(<<"x">>), Some(<<"/", "y">>),
                  Some(<<"h", "t", "t", "p", ":", "/", "/", "o", "/", "z">>)}}
ItemKids == TitleKids \cup RatingKids \cup PlainKids \cup AnchorKids
ItemNodes ==
    {Box("div", "movie-item", kids) : kids \in SeqsUpTo(ItemKids, MaxKids)}
    \cup {Leaf("div", "movie-item", None, t) : t \in {<<" ">>, <<"a", NL, "b">>}}

\* the lines input() returns
InputLines ==
    {<< >>, <<"a", "b", "c">>, <<"-", "1">>, <<"0">>, <<"1">>, <<" ", "2", " ">>,
     <<"3">>, <<"9", "9">>, <<"SUP2">>, <<"AR3">>}

LongText == Rep("s", MinSummaryLen + 1)
ExactText == Rep("e", MinSummaryLen)
FilmFacts == <<"1", "9", "9", "9", " ", "9", "0", " ", "M", "i", "n">>

\* detail pages
DetailPages ==
    {<< >>,
     <<P(<<"s", "h", "o", "r", "t">>)>>,
     <<P(ExactText), Box("div", "", <<P(<<" ">> \o LongText \o <<" ">>)>>)>>,
     <<P(FilmFacts), P(LongText)>>}

\* listing pages for whole runs of the program
MainSoups ==
    {<< >>,
     <<Leaf("span", "", None, <<"a">>)>>,
     <<Box("div", "movie-item", <<A(Some(<<"x">>), <<"T">>), P(LongText)>>),
       Box("div", "movie-item", <<H2(<<"U">>), P(<<"s", "h", "o", "r", "t">>)>>),
       Box("div", "movie-item", << >>)>>,
     <<Box("section", "", <<H2(<<"A">>), P(FilmFacts)>>),
       Box("section", "", <<H2(<<"A">>), P(FilmFacts)>>)>>}

(***************************************************************************)
(* The detail enrichers                                                    *)
(***************************************************************************)
TransportErrors == {"dns", "connect", "timeout", "http_status"}

\* the outcome of a call: a returned value or a raised exception
Returns(v) == [raised |-> None, value |-> Some(v)]
Raises(e) == [raised |-> Some(e), value |-> None]

AllAbsent == [Summary |-> None, Year |-> None, Duration |-> None, Additional |-> None]

\* lines 136-141: the first paragraph whose stripped text has more than 20
\* characters
RECURSIVE FirstLongParagraph(_, _, _)
FirstLongParagraph(tree, ps, k) ==
    IF k > Len(ps) THEN None
    ELSE LET t == GetText(tree, ps[k], << >>)
         IN  IF t # << >> /\ Len(t) > MinSummaryLen THEN Some(t)
             ELSE FirstLongParagraph(tree, ps, k + 1)

\* lines 159-162: the first paragraph, when its stripped text is not empty
FirstParagraph(tree) ==
    LET p == SelectOne(tree, << >>, "p")
    IN  IF p # None /\ GetText(tree, p[1], << >>) # << >>
        THEN Some(GetText(tree, p[1], << >>))
        ELSE None

\* lines 143-154 and 163-172
DetailsOf(tree, summary) ==
    LET full_text == GetText(tree, << >>, <<" ">>)
    IN  [Summary |-> summary,
         Year |-> YearSearch(full_text),
         Duration |-> DurationSearch(full_text),
         Additional |-> None]

\* fetch_movie_details_from_page with raise_for_status() outside the try
fetch_unguarded(resp, page) ==
    IF resp = "http_status" THEN Raises("HTTPError")
    ELSE IF resp \in TransportErrors THEN Returns(AllAbsent)
    ELSE Returns(DetailsOf(page, FirstLongParagraph(page, Select(page, << >>, "p"), 1)))

\* lines 120-154; response is the outcome of requests.get and raise_for_status:
\* "ok" with the page's tree, or a transport error
fetch_movie_details_from_page(resp, page) ==
    IF resp \in TransportErrors THEN Returns(AllAbsent)
    ELSE Returns(DetailsOf(page, FirstLongParagraph(page, Select(page, << >>, "p"), 1)))

\* lines 156-172
extract_details_from_rawhtml(raw_html) ==
    LET tree == ParseMarkup(raw_html)
    IN  Returns(DetailsOf(tree, FirstParagraph(tree)))

(***************************************************************************)
(* interactive_menu                                                        *)
(***************************************************************************)
\* str.isdigit(): every character has Numeric_Type Digit or Decimal, and
\* there is at least one
DigitChars == DecimalDigits \cup {"SUP2"}
IsDigit(s) == s # << >> /\ \A k \in 1..Len(s) : s[k] \in DigitChars

DigitValue(c) ==
    CASE c = "0" -> 0 [] c = "1" -> 1 [] c = "2" -> 2 [] c = "3" -> 3
      [] c = "4" -> 4 [] c = "5" -> 5 [] c = "6" -> 6 [] c = "7" -> 7
      [] c = "8" -> 8 [] c = "9" -> 9 [] c = "AR3" -> 3

\* int(s) on a string of digit characters: the decimal value, or ValueError
\* (None) when a character is no decimal digit
RECURSIVE DecimalValue(_)
DecimalValue(s) ==
    IF s = << >> THEN 0
    ELSE 10 * DecimalValue(SubSeq(s, 1, Len(s) - 1)) + DigitValue(s[Len(s)])
ParseInt(s) ==
    IF \A k \in 1..Len(s) : s[k] \in DecimalDigits THEN Some(DecimalValue(s)) ELSE None

\* EnricherCall without the test of line 208
EnricherCallIgnoresLink(movie) ==
    [fn |-> "extract_details_from_rawhtml", arg |-> movie.RawHTML]

\* lines 208-212: the enricher the selection uses and its argument
EnricherCall(movie) ==
    IF movie.Link \notin {None, Some(<< >>)}
    THEN [fn |-> "fetch_movie_details_from_page", arg |-> movie.Link[1]]
    ELSE [fn |-> "extract_details_from_rawhtml", arg |-> movie.RawHTML]

\* lines 175-177
MenuEnter ==
    /\ pc = "menu"
    /\ IF scraped = << >>
       THEN /\ out' = "No movies to display."
            /\ pc' = "returned"
       ELSE /\ out' = "Found the following movies:"
            /\ pc' = "listing"
    /\ UNCHANGED <<url, soup, movies_data, selected, choice, calls, details, escaped,
                   prompts, signal, response>>
    /\ UNCHANGED locVars
    /\ UNCHANGED mainVars

\* lines 180-189: the records are rendered, then the TTY test
Listing ==
    /\ pc = "listing"
    /\ IF ~args.isatty
       THEN /\ out' = "Input not interactive; skipping selection."
            /\ pc' = "returned"
       ELSE /\ out' = "listed"
            /\ pc' = "await"
    /\ UNCHANGED <<url, soup, movies_data, selected, choice, calls, details, escaped,
                   prompts, signal, response>>
    /\ UNCHANGED locVars
    /\ UNCHANGED mainVars

\* a KeyboardInterrupt while lines 179-189 run: they are outside the try
ListingInterrupt ==
    /\ pc = "listing"
    /\ signal' = "listing"
    /\ escaped' = Some("KeyboardInterrupt")
    /\ pc' = "raised"
    /\ UNCHANGED <<url, soup, movies_data, selected, choice, calls, details, out,
                   prompts, response>>
    /\ UNCHANGED locVars
    /\ UNCHANGED mainVars

\* lines 193-206: one line is read and dispatched
ReadChoice ==
    /\ pc = "await"
    /\ prompts < MaxPrompts
    /\ \E line \in InputLines :
         LET c == Strip(line)
             idx == ParseInt(c)
         IN  /\ choice' = Some(c)
             /\ prompts' = prompts + 1
             /\ IF ~IsDigit(c)
                THEN /\ out' = "Please enter a valid number."
                     /\ pc' = "await"
                     /\ UNCHANGED <<selected, escaped>>
                ELSE IF idx = None
                THEN /\ escaped' = Some("ValueError")
                     /\ pc' = "raised"
                     /\ UNCHANGED <<selected, out>>
                ELSE IF idx[1] = 0
                THEN /\ out' = "Exiting."
                     /\ pc' = "returned"
                     /\ UNCHANGED <<selected, escaped>>
                ELSE IF idx[1] < 1 \/ idx[1] > Len(scraped)
                THEN /\ out' = "Number out of range."
                     /\ pc' = "await"
                     /\ UNCHANGED <<selected, escaped>>
                ELSE /\ selected' = idx[1]
                     /\ out' = "Details for"
                     /\ pc' = "show"
                     /\ UNCHANGED escaped
    /\ UNCHANGED <<url, soup, movies_data, calls, details, signal, response>>
    /\ UNCHANGED locVars
    /\ UNCHANGED mainVars

\* lines 225-227: input() raises EOFError or KeyboardInterrupt
ReadInterrupt ==
    /\ pc = "await"
    /\ signal' = "await"
    /\ out' = "Exiting."
    /\ pc' = "returned"
    /\ UNCHANGED <<url, soup, movies_data, selected, choice, calls, details, escaped,
                   prompts, response>>
    /\ UNCHANGED locVars
    /\ UNCHANGED mainVars

\* lines 208-223: the enricher is called and its result rendered; an
\* exception it raises is not one the loop catches
ShowDetail ==
    /\ pc = "show"
    /\ LET call == EnricherCall(scraped[selected])
       IN  /\ calls' = Append(calls, call)
           /\ \E resp \in {"ok"} \cup TransportErrors :
              \E page \in DetailPages :
                LET fetched == call.fn = "fetch_movie_details_from_page"
                    result == IF fetched
                              THEN fetch_movie_details_from_page(resp, page)
                              ELSE extract_details_from_rawhtml(call.arg)
                IN  /\ response' = IF fetched THEN Some(resp) ELSE None
                    /\ IF result.raised # None
                       THEN /\ escaped' = result.raised
                            /\ pc' = "raised"
                            /\ UNCHANGED <<details, out>>
                       ELSE /\ details' = result.value
                            /\ out' = "details"
                            /\ pc' = "await"
                            /\ UNCHANGED escaped
    /\ UNCHANGED <<url, soup, movies_data, selected, choice, prompts, signal>>
    /\ UNCHANGED locVars
    /\ UNCHANGED mainVars

\* lines 225-227: a KeyboardInterrupt while lines 205-223 run
ShowInterrupt ==
    /\ pc = "show"
    /\ signal' = "show"
    /\ out' = "Exiting."
    /\ pc' = "returned"
    /\ UNCHANGED <<url, soup, movies_data, selected, choice, calls, details, escaped,
                   prompts, response>>
    /\ UNCHANGED locVars
    /\ UNCHANGED mainVars

NextMenu ==
    \/ MenuEnter
    \/ Listing
    \/ ListingInterrupt
    \/ ReadChoice
    \/ ReadInterrupt
    \/ ShowDetail
    \/ ShowInterrupt

(***************************************************************************)
(* __main__ and the fetch of scrape_movies                                 *)
(***************************************************************************)
\* lines 29-36; the response is the outcome of requests.get
FetchListing ==
    /\ pc = "start"
    /\ \E resp \in {"ok"} \cup TransportErrors :
         IF resp = "ok"
         THEN /\ pc' = "select"
              /\ scraped' = scraped
         ELSE /\ pc' = "scraped"
              /\ scraped' = << >>
    /\ UNCHANGED <<url, soup, movies_data, args, jsonWritten, exitCode>>
    /\ UNCHANGED locVars
    /\ UNCHANGED menuVars

\* lines 240-242
CheckScraped ==
    /\ pc = "scraped"
    /\ IF scraped = << >>
       THEN /\ exitCode' = 1
            /\ pc' = "exited"
       ELSE /\ exitCode' = exitCode
            /\ pc' = "json"
    /\ UNCHANGED <<url, soup, movies_data, scraped, args, jsonWritten>>
    /\ UNCHANGED locVars
    /\ UNCHANGED menuVars

\* lines 248-256; open or json.dump may raise OSError
WriteJson ==
    /\ pc = "json"
    /\ IF args.json
       THEN \E ok \in BOOLEAN : jsonWritten' = IF ok THEN "ok" ELSE "failed"
       ELSE jsonWritten' = jsonWritten
    /\ pc' = "interactive"
    /\ UNCHANGED <<url, soup, movies_data, scraped, args, exitCode>>
    /\ UNCHANGED locVars
    /\ UNCHANGED menuVars

\* lines 258-259
CheckInteractive ==
    /\ pc = "interactive"
    /\ pc' = IF ~args.no_interactive /\ args.isatty THEN "menu" ELSE "returned"
    /\ UNCHANGED <<url, soup, movies_data>>
    /\ UNCHANGED locVars
    /\ UNCHANGED mainVars
    /\ UNCHANGED menuVars

\* line 261, and the end of the script
Done ==
    /\ pc = "returned"
    /\ exitCode' = 0
    /\ pc' = "exited"
    /\ UNCHANGED <<url, soup, movies_data, scraped, args, jsonWritten>>
    /\ UNCHANGED locVars
    /\ UNCHANGED menuVars

\* an exception that left interactive_menu is not caught in __main__: the
\* interpreter prints the traceback and exits with status 1, or, for a
\* KeyboardInterrupt, as a process ended by SIGINT (status 130)
Uncaught ==
    /\ pc = "raised"
    /\ exitCode' = IF escaped = Some("KeyboardInterrupt") THEN 130 ELSE 1
    /\ pc' = "exited"
    /\ UNCHANGED <<url, soup, movies_data, scraped, args, jsonWritten>>
    /\ UNCHANGED locVars
    /\ UNCHANGED menuVars

NextMain ==
    \/ FetchListing
    \/ CheckScraped
    \/ WriteJson
    \/ CheckInteractive
    \/ Done
    \/ Uncaught


(***************************************************************************)
(* Specifications                                                          *)
(***************************************************************************)
InitLocals ==
    /\ selIdx = 1
    /\ evaluated = << >>
    /\ movie_listings = << >>
    /\ usedFallback = FALSE
    /\ hIdx = 1
    /\ candidates = << >>
    /\ movies_data = << >>

InitMenu ==
    /\ selected = 0
    /\ choice = None
    /\ calls = << >>
    /\ details = None
    /\ out = ""
    /\ escaped = None
    /\ signal = "none"
    /\ response = None
    /\ prompts = 0

InitMainVars ==
    /\ scraped = << >>
    /\ jsonWritten = "no"
    /\ exitCode = -1

NoArgs == [json |-> FALSE, no_interactive |-> FALSE, isatty |-> TRUE]

\* a run of the whole program
Init ==
    /\ url \in BaseUrls
    /\ soup \in MainSoups
    /\ args \in [json : BOOLEAN, no_interactive : BOOLEAN, isatty : BOOLEAN]
    /\ pc = "start"
    /\ InitLocals
    /\ InitMenu
    /\ InitMainVars

Next == NextMain \/ NextLocate \/ NextExtract \/ NextMenu

Spec == Init /\ [][Next]_vars

\* the listing locator on a fetched page
InitLocate ==
    /\ url \in BaseUrls
    /\ soup \in LocSoups
    /\ args = NoArgs
    /\ pc = "select"
    /\ InitLocals
    /\ InitMenu
    /\ InitMainVars

SpecLocate == InitLocate /\ [][NextLocate]_vars

\* the field extractor on the items the first selector located
InitExtract ==
    /\ url \in BaseUrls
    /\ \E item \in ItemNodes : soup = <<item>>
    /\ args = NoArgs
    /\ pc = "extract"
    /\ selIdx = 1
    /\ evaluated = <<selectors[1]>>
    /\ movie_listings = Select(soup, << >>, selectors[1])
    /\ usedFallback = FALSE
    /\ hIdx = 1
    /\ candidates = << >>
    /\ movies_data = << >>
    /\ InitMenu
    /\ InitMainVars

SpecExtract == InitExtract /\ [][NextExtract]_vars

(***************************************************************************)
(* Properties of the listing locator (SpecLocate)                          *)
(***************************************************************************)
Least(S) == CHOOSE k \in S : \A j \in S : k <= j

\* the index of the first selector of the cascade that matches, 0 if none does
FirstMatching(tree) ==
    LET hits == {k \in 1..Len(selectors) : Select(tree, << >>, selectors[k]) # << >>}
    IN  IF hits = {} THEN 0 ELSE Least(hits)

InSeq(x, seq) == \E k \in 1..Len(seq) : seq[k] = x

\* C7: the selectors are tried in their order, the listings are exactly the
\* match set of the first selector that matches, no selector after it is
\* evaluated, and the heading fallback runs only when no selector matched.
C7_FirstSelectorWins ==
    LET k == FirstMatching(soup)
    IN  /\ pc = "select" =>
              /\ evaluated = SubSeq(selectors, 1, selIdx - 1)
              /\ k = 0 \/ k >= selIdx
        /\ (pc \in {"located", "extract"} /\ ~usedFallback) =>
              IF k = 0
              THEN movie_listings = << >> /\ evaluated = selectors
              ELSE /\ movie_listings = Select(soup, << >>, selectors[k])
                   /\ evaluated = SubSeq(selectors, 1, k)
                   /\ \A j \in 1..Len(movie_listings) :
                        Matches(NodeAt(soup, movie_listings[j]), selectors[k])
        /\ (usedFallback \/ pc = "fallback") => k = 0

\* C7's case: a selector won although a later selector matches nodes that
\* are not among the listings
C7_Witness ==
    /\ pc = "extract"
    /\ ~usedFallback
    /\ FirstMatching(soup) > 0
    /\ \E j \in (FirstMatching(soup) + 1)..Len(selectors) :
         \E m \in 1..Len(Select(soup, << >>, selectors[j])) :
            ~InSeq(Select(soup, << >>, selectors[j])[m], movie_listings)

\* the parents of the headings of the tree, each node once, in first-seen order
HeadingParents(tree) ==
    LET parents == [k \in 1..Len(Headings(tree)) |-> ParentOf(Headings(tree)[k])]
        F[i \in 0..Len(parents)] ==
            IF i = 0 THEN << >>
            ELSE IF InSeq(parents[i], F[i - 1]) THEN F[i - 1]
            ELSE Append(F[i - 1], parents[i])
    IN  F[Len(parents)]

\* C10: the heading fallback returns one item per distinct parent node of a
\* heading, deduplicated by node identity, in first-seen order; two different
\* parents with the same tag, attributes and content are both kept.
C10_FallbackKeepsEveryParent ==
    (pc = "extract" /\ usedFallback) => movie_listings = HeadingParents(soup)

(***************************************************************************)
(* Properties of the field extractor (SpecExtract)                         *)
(***************************************************************************)
\* the text of the first selector of the cascade whose first match has a
\* non-empty stripped text, None if there is none
FirstCascadeText(tree, path, sels) ==
    LET TextAt(k) ==
            LET el == SelectOne(tree, path, sels[k])
            IN  IF el = None THEN << >> ELSE Strip(NodeAt(tree, el[1]).text)
        hits == {k \in 1..Len(sels) : TextAt(k) # << >>}
    IN  IF hits = {} THEN None ELSE Some(TextAt(Least(hits)))

\* the lines of a text
RECURSIVE SplitLines(_)
SplitLines(s) ==
    LET nl == IndexFrom(s, NL, 1)
    IN  IF nl = 0 THEN <<s>>
        ELSE <<SubSeq(s, 1, nl - 1)>> \o SplitLines(SubSeq(s, nl + 1, Len(s)))

\* the first line of a text that is not empty when stripped, stripped
FirstNonEmptyLine(s) ==
    LET lines == SplitLines(s)
        hits == {k \in 1..Len(lines) : Strip(lines[k]) # << >>}
    IN  IF hits = {} THEN None ELSE Some(Strip(lines[Least(hits)]))

ExpectedTitle(tree, path) ==
    LET t == FirstCascadeText(tree, path, title_selectors)
        line == FirstNonEmptyLine(GetText(tree, path, <<" ">>))
    IN  IF t # None THEN t ELSE IF line # None THEN line ELSE Some(NA)

ExpectedRating(tree, path) ==
    LET r == FirstCascadeText(tree, path, rating_selectors)
        m == RatingSearch(GetText(tree, path, <<" ">>))
    IN  IF r # None THEN r ELSE IF m # None THEN m ELSE Some(NA)

ExpectedLink(tree, path, base) ==
    LET HasHref(d) ==
            /\ NodeAt(tree, d).tag = "a"
            /\ NodeAt(tree, d).href \notin {None, Some(<< >>)}
        anchors == FilterSeq(Descendants(tree, path), HasHref)
    IN  IF anchors = << >> THEN None
        ELSE Some(UrlJoin(base, NodeAt(tree, anchors[1]).href[1]))

\* C5: a record's Link is present exactly when the item has an anchor with a
\* non-empty href, and is then the href of the first such anchor resolved
\* against the base URL, also when an earlier anchor has an empty href.
C5_LinkIsFirstNonEmptyHref ==
    \A i \in 1..Len(movies_data) :
        movies_data[i].Link = ExpectedLink(soup, movie_listings[i], url)

(***************************************************************************)
(* Properties of the selection loop and of the program (Spec)              *)
(***************************************************************************)
\* a line that int() reads as a decimal number
Numeric(c) == c # << >> /\ \A k \in 1..Len(c) : c[k] \in DecimalDigits

\* a line that is not a number, or is a number other than 0 outside 1..n
Malformed(c, n) == ~Numeric(c) \/ DecimalValue(c) \notin 0..n

\* a step of the loop that reads a line
ReadsLine == pc = "await" /\ prompts' = prompts + 1

\* a step of the loop in which an enricher is called
CallsEnricher == pc = "show" /\ calls' # calls

\* C1: a line that is not a number, or a number other than 0 outside 1..N,
\* prints an error and leaves the loop awaiting input: no enricher is called,
\* the records are unchanged, the loop does not exit, no exception escapes.
C1_MalformedInputReprompts ==
    [][(ReadsLine /\ Malformed(choice'[1], Len(scraped))) =>
          /\ pc' = "await"
          /\ out' \in {"Please enter a valid number.", "Number out of range."}
          /\ calls' = calls
          /\ scraped' = scraped
          /\ escaped' = None]_vars

\* C2: an interrupt in any state of the loop (Listing, AwaitingInput,
\* ShowDetail) ends the loop with a notice: interactive_menu returns and the
\* interrupt does not reach the caller.
C2_InterruptExitsLoop ==
    signal # "none" =>
        /\ pc \in {"returned", "exited"}
        /\ out = "Exiting."
        /\ escaped = None

\* C3: the process exits with code 1 exactly when scrape_movies returned an
\* empty list and with code 0 otherwise, whatever happens to the JSON file.
C3_ExitCode ==
    pc = "exited" => exitCode = (IF scraped = << >> THEN 1 ELSE 0)

\* C6: the Summary of every EnrichmentResult is absent or longer than 20
\* characters, in either entry mode.
C6_SummaryLongerThan20 ==
    details # None =>
        \/ details[1].Summary = None
        \/ Len(details[1].Summary[1]) > MinSummaryLen

\* C8: when the fetch of a detail page fails with a transport error,
\* fetch_movie_details_from_page raises nothing and returns a result whose
\* fields are all absent, and the loop goes on awaiting input.
C8_TransportFailureAllAbsent ==
    [][(CallsEnricher /\ response' # None /\ response'[1] \in TransportErrors) =>
          /\ details' = Some(AllAbsent)
          /\ escaped' = None
          /\ pc' = "await"]_vars

\* C8's case: a detail fetch failed and the loop awaits input again
C8_Witness ==
    /\ pc = "await"
    /\ out = "details"
    /\ response \in {Some(e) : e \in TransportErrors}
    /\ details = Some(AllAbsent)
    /\ exitCode = -1

\* the enricher call a record asks for
ExpectedCall(movie) ==
    IF movie.Link # None
    THEN [fn |-> "fetch_movie_details_from_page", arg |-> movie.Link[1]]
    ELSE [fn |-> "extract_details_from_rawhtml", arg |-> movie.RawHTML]

\* C9: a number idx in 1..N leads to ShowDetail for Record[idx-1]; there
\* exactly one enricher is called, fetch_movie_details_from_page(Link) when
\* the record has a Link and extract_details_from_rawhtml(RawHTML), without
\* a fetch, when it has none, also when the record was selected before; then
\* the loop awaits input again.
C9_SelectionCallsOneEnricher ==
    [][/\ (ReadsLine /\ Numeric(choice'[1])
               /\ DecimalValue(choice'[1]) \in 1..Len(scraped)) =>
            /\ pc' = "show"
            /\ selected' = DecimalValue(choice'[1])
            /\ calls' = calls
       /\ pc = "show" => selected \in 1..Len(scraped)
       /\ CallsEnricher =>
            /\ calls' = Append(calls, ExpectedCall(scraped[selected]))
            /\ (scraped[selected].Link = None) = (response' = None)
            /\ pc' = "await"
       /\ calls' # calls => pc = "show"]_vars

\* C9's case: the same record with a Link was selected twice and fetched
\* twice, and a record without a Link exists
C9_Witness ==
    /\ pc = "await"
    /\ Len(calls) = 2
    /\ calls[1] = calls[2]
    /\ calls[1].fn = "fetch_movie_details_from_page"
    /\ \E i \in 1..Len(scraped) : scraped[i].Link = None

=============================================================================
